---- MODULE Spec2Model ----
(***************************************************************************)
(* Model of QuantumWorkloadGenerator (src/datasetwithtime_generation.py).  *)
(*                                                                         *)
(* Time is kept in whole microseconds, the resolution of Python's          *)
(* datetime and timedelta: a datetime is its microsecond count, a          *)
(* timedelta a (possibly negative) number of microseconds.  A value        *)
(* appended to `timestamps` is datetime.timestamp(), the float of seconds  *)
(* nearest to that count; at present-day epochs two datetimes one          *)
(* microsecond apart give different floats in the same order, so the       *)
(* model records the microsecond count itself.                             *)
(* The datetimes are naive local times; a daylight-saving transition      *)
(* during a run is outside the model.                                      *)
(*                                                                         *)
(* One generation call runs at a time (the class is synchronous).  A call  *)
(* is split at the iterations of its loops; everything outside the loops   *)
(* (sampling and set-up, attaching, labelling, to_csv, return) is part of  *)
(* the action that enters or leaves the loop.                              *)
(***************************************************************************)
EXTENDS Integers, Sequences, FiniteSets, TLC

VARIABLES pc, strategy, kwargs, sample_df, base_time, current_time,
          timestamps, i, k, attached, result, error, persisted

vars == <<pc, strategy, kwargs, sample_df, base_time, current_time,
          timestamps, i, k, attached, result, error, persisted>>

---------------------------------------------------------------------------
(* Bounds of the inputs explored.                                          *)

\* largest num_qtasks given to single spike, bursty and regular spikes
MaxN == 4
\* largest num_qtasks given to random bursts
MaxRandomN == 3
\* largest num_qtasks given to the ramp strategies
MaxRampN == 6
\* largest burst_duration / spike_interval / normal_interval, microseconds
MaxInterval == 1
\* largest initial_interval / final_interval of a ramp, microseconds
MaxRampInterval == 3
\* largest burst_tasks / spike_tasks / max_tasks_in_burst
MaxTasks == 3
\* largest number of rows of a user's invocation-times table
MaxRows == 3

Counts == -1 .. MaxN
RampCounts == -1 .. MaxRampN
RandomCounts == -1 .. MaxRandomN
Intervals == 0 .. MaxInterval
RampIntervals == 0 .. MaxRampInterval
TaskCounts == 0 .. MaxTasks

\* burst_chance and the outcomes of random.random(), both counted in halves:
\* burst_chance is 0, 0.5 or 1; random.random() lies in [0, 1)
Chances == {0, 1, 2}
RandomDraws == {0, 1}

\* datetime.now() of the call
BaseTimes == {100}

---------------------------------------------------------------------------
(* The task pool and data frames.                                          *)

\* the columns of the pool the generator is constructed with
PoolColumns == <<"qtask", "qubits">>

\* the row labels of the pool (a RangeIndex)
PoolRows == {0, 1}

\* a missing value of a column
NaN == 0 - 1

Min(a, b) == IF a < b THEN a ELSE b

Range(s) == {s[x] : x \in DOMAIN s}

Contains(s, e) == \E x \in DOMAIN s : s[x] = e

\* the frame that holds no rows and no columns
EmptyFrame == [index |-> <<>>, rows |-> <<>>, columns |-> <<>>,
               timestamp |-> <<>>, subset |-> <<>>]

\* DataFrame.sample(n, replace=True): every choice of n pool rows; the
\* sample keeps each row's pool label as its index.  (n < 0 raises
\* ValueError: see SampleFails.)
Sample(n) ==
    {[index |-> rows, rows |-> rows, columns |-> PoolColumns,
      timestamp |-> <<>>, subset |-> <<>>] : rows \in [1 .. n -> PoolRows]}

SampleFails(n) == n < 0

\* DataFrame.reset_index(drop=True): the labels become 0 .. len-1
ResetIndex(df) == [df EXCEPT !.index = [x \in 1 .. Len(df.rows) |-> x - 1]]

\* df['timestamp'] = <list>: a list is set by position and must be as long
\* as the frame (ValueError otherwise); a new column goes last
SetListFails(df, values) == Len(values) # Len(df.rows)

SetList(df, values) ==
    [df EXCEPT !.timestamp = values,
               !.columns = IF Contains(df.columns, "timestamp")
                           THEN df.columns
                           ELSE Append(df.columns, "timestamp")]

\* df.insert(0, 'subset', 1): ValueError when the column exists
InsertFails(df) == Contains(df.columns, "subset")

InsertSubset(df) ==
    [df EXCEPT !.subset = [x \in 1 .. Len(df.rows) |-> 1],
               !.columns = <<"subset">> \o df.columns]

\* timestamps[:n] for n >= 0
Truncate(ts, n) == SubSeq(ts, 1, Min(n, Len(ts)))

\* timedelta / int, and the rounding of timedelta(seconds=<float>): the
\* quotient a / b rounded to the nearest microsecond, ties to even (b > 0)
DivideAndRound(a, b) ==
    LET q == a \div b
        r == a % b
    IN  IF 2 * r > b \/ (2 * r = b /\ q % 2 = 1) THEN q + 1 ELSE q

\* random.uniform(0, d) turned into a timedelta: 0 .. d microseconds
Uniform(d) == 0 .. d

---------------------------------------------------------------------------
Init ==
    /\ pc = "idle"
    /\ strategy = "none"
    /\ kwargs = [num_qtasks |-> 0]
    /\ sample_df = EmptyFrame
    /\ base_time = 0
    /\ current_time = 0
    /\ timestamps = <<>>
    /\ i = 0
    /\ k = 0
    /\ attached = <<>>
    /\ result = <<>>
    /\ error = "none"
    /\ persisted = "none"

\* the call raises: nothing is returned
Raise(name, exc) ==
    /\ pc' = "failed"
    /\ strategy' = name
    /\ error' = exc
    /\ result' = <<>>

\* the first lines of every synthesising method: sample, base_time,
\* timestamps = [], current_time = base_time
Begin(name, args) ==
    /\ pc = "idle"
    /\ kwargs' = args
    /\ IF SampleFails(args.num_qtasks)
       THEN /\ Raise(name, "ValueError")
            /\ UNCHANGED <<sample_df, base_time, current_time, timestamps,
                           i, k, attached, persisted>>
       ELSE /\ sample_df' \in Sample(args.num_qtasks)
            /\ base_time' \in BaseTimes
            /\ current_time' = base_time'
            /\ timestamps' = <<>>
            /\ i' = 0
            /\ k' = 0
            /\ pc' = "loop"
            /\ strategy' = name
            /\ UNCHANGED <<attached, result, error, persisted>>

\* Finish with to_csv moved ahead of the attachment: the file is written
\* even when the attachment raises
FinishPersistFirst(values, label, file) ==
    /\ attached' = <<values>>
    /\ persisted' = file
    /\ IF SetListFails(sample_df, values)
       THEN /\ Raise(strategy, "ValueError")
            /\ UNCHANGED sample_df
       ELSE LET df == SetList(sample_df, values) IN
            IF label /\ InsertFails(df)
            THEN /\ Raise(strategy, "ValueError")
                 /\ sample_df' = df
            ELSE /\ sample_df' = (IF label THEN InsertSubset(df) ELSE df)
                 /\ result' = <<sample_df'>>
                 /\ pc' = "done"
                 /\ UNCHANGED <<strategy, error>>
    /\ UNCHANGED <<kwargs, base_time, current_time, timestamps, i, k>>

\* the last lines of a method: attach `values`, label (unless `label` is
\* FALSE), to_csv(file), return
Finish(values, label, file) ==
    /\ attached' = <<values>>
    /\ IF SetListFails(sample_df, values)
       THEN /\ Raise(strategy, "ValueError")
            /\ UNCHANGED <<sample_df, persisted>>
       ELSE LET df == SetList(sample_df, values) IN
            IF label /\ InsertFails(df)
            THEN /\ Raise(strategy, "ValueError")
                 /\ sample_df' = df
                 /\ UNCHANGED persisted
            ELSE /\ sample_df' = (IF label THEN InsertSubset(df) ELSE df)
                 /\ persisted' = file
                 /\ result' = <<sample_df'>>
                 /\ pc' = "done"
                 /\ UNCHANGED <<strategy, error>>
    /\ UNCHANGED <<kwargs, base_time, current_time, timestamps, i, k>>

---------------------------------------------------------------------------
(* generate_single_spike_dataset                                           *)

SingleSpikeCall ==
    /\ pc = "idle"
    /\ \E n \in Counts, bd \in Intervals, ni \in Intervals, bt \in TaskCounts :
        Begin("single_spike",
              [num_qtasks |-> n, burst_duration |-> bd,
               normal_interval |-> ni, burst_tasks |-> bt])

SingleSpikeBurst ==
    /\ pc = "loop" /\ strategy = "single_spike"
    /\ i < kwargs.burst_tasks
    /\ \E u \in Uniform(kwargs.burst_duration) :
          /\ timestamps' = Append(timestamps, current_time + u)
          /\ current_time' = current_time + u
    /\ i' = i + 1
    /\ UNCHANGED <<pc, strategy, kwargs, sample_df, base_time, k, attached,
                   result, error, persisted>>

SingleSpikeNormal ==
    /\ pc = "loop" /\ strategy = "single_spike"
    /\ i = kwargs.burst_tasks
    /\ k < kwargs.num_qtasks - kwargs.burst_tasks
    /\ current_time' = current_time + kwargs.normal_interval
    /\ timestamps' = Append(timestamps, current_time')
    /\ k' = k + 1
    /\ UNCHANGED <<pc, strategy, kwargs, sample_df, base_time, i, attached,
                   result, error, persisted>>

SingleSpikeFinish ==
    /\ pc = "loop" /\ strategy = "single_spike"
    /\ i = kwargs.burst_tasks
    /\ k >= kwargs.num_qtasks - kwargs.burst_tasks
    /\ Finish(timestamps, TRUE, "single_spike_dataset.csv")

---------------------------------------------------------------------------
(* generate_bursty_dataset                                                 *)

BurstyCall ==
    /\ pc = "idle"
    /\ \E n \in Counts, bd \in Intervals, bt \in TaskCounts, li \in Intervals :
        Begin("bursty",
              [num_qtasks |-> n, burst_duration |-> bd, burst_tasks |-> bt,
               low_activity_interval |-> li])

\* one pass of `for _ in range(burst_tasks)` that does not break
BurstyBurst ==
    /\ pc = "loop" /\ strategy = "bursty"
    /\ i < kwargs.burst_tasks
    /\ Len(timestamps) < kwargs.num_qtasks
    /\ timestamps' = Append(timestamps, current_time)
    /\ \E u \in Uniform(DivideAndRound(kwargs.burst_duration,
                                       kwargs.burst_tasks)) :
          current_time' = current_time + u
    /\ i' = i + 1
    /\ UNCHANGED <<pc, strategy, kwargs, sample_df, base_time, k, attached,
                   result, error, persisted>>

\* one pass of `while len(timestamps) < num_qtasks`
BurstyIdle ==
    /\ pc = "loop" /\ strategy = "bursty"
    /\ i = kwargs.burst_tasks
    /\ Len(timestamps) < kwargs.num_qtasks
    /\ timestamps' = Append(timestamps, current_time)
    /\ current_time' = current_time + kwargs.low_activity_interval
    /\ UNCHANGED <<pc, strategy, kwargs, sample_df, base_time, i, k,
                   attached, result, error, persisted>>

\* the burst loop broke or ran out and the while loop has nothing to add
BurstyFinish ==
    /\ pc = "loop" /\ strategy = "bursty"
    /\ Len(timestamps) >= kwargs.num_qtasks
    /\ Finish(Truncate(timestamps, kwargs.num_qtasks), TRUE,
              "bursty_dataset.csv")

---------------------------------------------------------------------------
(* simulate_regular_spikes                                                 *)

RegularSpikesCall ==
    /\ pc = "idle"
    /\ \E n \in Counts, si \in Intervals, st \in TaskCounts, ni \in Intervals :
        Begin("regular_spikes",
              [num_qtasks |-> n, spike_interval |-> si, spike_tasks |-> st,
               normal_interval |-> ni])

\* `i % spike_tasks == 0 and i != 0` (spike_tasks > 0)
IsSpike(idx, spike_tasks) == idx % spike_tasks = 0 /\ idx # 0

\* `i % 0` raises ZeroDivisionError at the first pass of the loop
RegularSpikesModuloFails ==
    /\ pc = "loop" /\ strategy = "regular_spikes"
    /\ i < kwargs.num_qtasks
    /\ kwargs.spike_tasks = 0
    /\ Raise(strategy, "ZeroDivisionError")
    /\ UNCHANGED <<kwargs, sample_df, base_time, current_time, timestamps,
                   i, k, attached, persisted>>

\* the else branch of a pass: a normal arrival
RegularSpikesNormal ==
    /\ pc = "loop" /\ strategy = "regular_spikes"
    /\ i < kwargs.num_qtasks
    /\ kwargs.spike_tasks > 0
    /\ ~IsSpike(i, kwargs.spike_tasks)
    /\ timestamps' = Append(timestamps, current_time)
    /\ current_time' = current_time + kwargs.normal_interval
    /\ i' = i + 1
    /\ UNCHANGED <<pc, strategy, kwargs, sample_df, base_time, k, attached,
                   result, error, persisted>>

\* the if branch of a pass: a spike begins
RegularSpikesSpikeBegin ==
    /\ pc = "loop" /\ strategy = "regular_spikes"
    /\ i < kwargs.num_qtasks
    /\ kwargs.spike_tasks > 0
    /\ IsSpike(i, kwargs.spike_tasks)
    /\ current_time' = current_time + kwargs.spike_interval
    /\ k' = 0
    /\ pc' = "spike"
    /\ UNCHANGED <<strategy, kwargs, sample_df, base_time, timestamps, i,
                   attached, result, error, persisted>>

\* SpikeHasBudget with `>` for `>=` in the break test
SpikeHasBudgetInclusive(ts, n) == Len(ts) <= n

\* `if len(timestamps) >= num_qtasks: break`
SpikeHasBudget(ts, n) == Len(ts) < n

\* one pass of `for _ in range(spike_tasks)` that does not break
RegularSpikesSpikeArrival ==
    /\ pc = "spike" /\ strategy = "regular_spikes"
    /\ k < kwargs.spike_tasks
    /\ SpikeHasBudget(timestamps, kwargs.num_qtasks)
    /\ timestamps' = Append(timestamps, current_time)
    /\ \E u \in Uniform(DivideAndRound(kwargs.spike_interval,
                                       kwargs.spike_tasks)) :
          current_time' = current_time + u
    /\ k' = k + 1
    /\ UNCHANGED <<pc, strategy, kwargs, sample_df, base_time, i, attached,
                   result, error, persisted>>

\* the spike's loop ran out or broke: on to the next pass of the outer loop
RegularSpikesSpikeEnd ==
    /\ pc = "spike" /\ strategy = "regular_spikes"
    /\ (k >= kwargs.spike_tasks
        \/ ~SpikeHasBudget(timestamps, kwargs.num_qtasks))
    /\ pc' = "loop"
    /\ i' = i + 1
    /\ k' = 0
    /\ UNCHANGED <<strategy, kwargs, sample_df, base_time, current_time,
                   timestamps, attached, result, error, persisted>>

RegularSpikesFinish ==
    /\ pc = "loop" /\ strategy = "regular_spikes"
    /\ i >= kwargs.num_qtasks
    /\ Finish(Truncate(timestamps, kwargs.num_qtasks), TRUE,
              "regular_spike_dataset.csv")

---------------------------------------------------------------------------
(* simulate_ramp_up and simulate_ramp_down                                 *)

\* <timedelta> / (num_qtasks - 1); a divisor of 0 raises (see RampBegin)
IntervalStep(diff, n) ==
    IF n - 1 > 0 THEN DivideAndRound(diff, n - 1)
                 ELSE DivideAndRound(0 - diff, 1 - n)

\* interval_step of simulate_ramp_up
RampUpStep(args) ==
    IntervalStep(args.initial_interval - args.final_interval, args.num_qtasks)

\* interval_step of simulate_ramp_down
RampDownStep(args) ==
    IntervalStep(args.final_interval - args.initial_interval, args.num_qtasks)

\* RampUpAdvance counting the steps from 1
RampUpAdvanceFromOne(idx, initial, step) == initial - (idx + 1) * step

\* `initial_interval - i * interval_step`
RampUpAdvance(idx, initial, step) == initial - idx * step

\* `initial_interval + i * interval_step`
RampDownAdvance(idx, initial, step) == initial + idx * step

\* the lines before the loop: the sample, then the division by num_qtasks - 1
RampBegin(name, args) ==
    IF ~SampleFails(args.num_qtasks) /\ args.num_qtasks - 1 = 0
    THEN /\ pc = "idle"
         /\ kwargs' = args
         /\ sample_df' \in Sample(args.num_qtasks)
         /\ base_time' \in BaseTimes
         /\ current_time' = base_time'
         /\ Raise(name, "ZeroDivisionError")
         /\ UNCHANGED <<timestamps, i, k, attached, persisted>>
    ELSE Begin(name, args)

RampUpCall ==
    /\ pc = "idle"
    /\ \E n \in RampCounts, ii \in RampIntervals, fi \in RampIntervals :
        RampBegin("ramp_up",
                  [num_qtasks |-> n, initial_interval |-> ii,
                   final_interval |-> fi])

RampUpArrival ==
    /\ pc = "loop" /\ strategy = "ramp_up"
    /\ i < kwargs.num_qtasks
    /\ timestamps' = Append(timestamps, current_time)
    /\ current_time' = current_time
          + RampUpAdvance(i, kwargs.initial_interval, RampUpStep(kwargs))
    /\ i' = i + 1
    /\ UNCHANGED <<pc, strategy, kwargs, sample_df, base_time, k, attached,
                   result, error, persisted>>

RampUpFinish ==
    /\ pc = "loop" /\ strategy = "ramp_up"
    /\ i >= kwargs.num_qtasks
    /\ Finish(Truncate(timestamps, kwargs.num_qtasks), TRUE,
              "ramp_up_dataset.csv")

RampDownCall ==
    /\ pc = "idle"
    /\ \E n \in RampCounts, ii \in RampIntervals, fi \in RampIntervals :
        RampBegin("ramp_down",
                  [num_qtasks |-> n, initial_interval |-> ii,
                   final_interval |-> fi])

RampDownArrival ==
    /\ pc = "loop" /\ strategy = "ramp_down"
    /\ i < kwargs.num_qtasks
    /\ timestamps' = Append(timestamps, current_time)
    /\ current_time' = current_time
          + RampDownAdvance(i, kwargs.initial_interval, RampDownStep(kwargs))
    /\ i' = i + 1
    /\ UNCHANGED <<pc, strategy, kwargs, sample_df, base_time, k, attached,
                   result, error, persisted>>

\* the insert of 'subset' is commented out in simulate_ramp_down
RampDownFinish ==
    /\ pc = "loop" /\ strategy = "ramp_down"
    /\ i >= kwargs.num_qtasks
    /\ Finish(Truncate(timestamps, kwargs.num_qtasks), FALSE,
              "ramp_down_dataset.csv")

---------------------------------------------------------------------------
(* generate_random_bursts                                                  *)

RandomBurstsCall ==
    /\ pc = "idle"
    /\ \E n \in RandomCounts, bc \in Chances, bd \in Intervals, mt \in TaskCounts,
       ni \in Intervals :
        Begin("random_bursts",
              [num_qtasks |-> n, burst_chance |-> bc, burst_duration |-> bd,
               max_tasks_in_burst |-> mt, normal_interval |-> ni])

\* IsBurst with `<=` for `<`
IsBurstInclusive(r, burst_chance) == r <= burst_chance

\* `random.random() < burst_chance`
IsBurst(r, burst_chance) == r < burst_chance

\* BurstSizes with randint(0, max_tasks_in_burst)
BurstSizesFromZero(max_tasks_in_burst) == 0 .. max_tasks_in_burst

\* the outcomes of random.randint(1, max_tasks_in_burst)
BurstSizes(max_tasks_in_burst) == 1 .. max_tasks_in_burst

\* a pass of the while loop that takes the burst branch; randint raises
\* ValueError on the empty range 1 .. 0
RandomBurstsBurstBegin ==
    /\ pc = "loop" /\ strategy = "random_bursts"
    /\ Len(timestamps) < kwargs.num_qtasks
    /\ \E r \in RandomDraws :
          /\ IsBurst(r, kwargs.burst_chance)
          /\ IF kwargs.max_tasks_in_burst < 1
             THEN /\ Raise(strategy, "ValueError")
                  /\ UNCHANGED k
             ELSE /\ k' \in BurstSizes(kwargs.max_tasks_in_burst)
                  /\ pc' = "burst"
                  /\ UNCHANGED <<strategy, error, result>>
    /\ UNCHANGED <<kwargs, sample_df, base_time, current_time, timestamps,
                   i, attached, persisted>>

\* one pass of the burst's for loop that does not break; k passes remain
RandomBurstsBurstArrival ==
    /\ pc = "burst" /\ strategy = "random_bursts"
    /\ k > 0
    /\ Len(timestamps) < kwargs.num_qtasks
    /\ timestamps' = Append(timestamps, current_time)
    /\ \E u \in Uniform(kwargs.burst_duration) :
          current_time' = current_time + u
    /\ k' = k - 1
    /\ UNCHANGED <<pc, strategy, kwargs, sample_df, base_time, i, attached,
                   result, error, persisted>>

\* the burst's loop ran out or broke: back to the while loop's test
RandomBurstsBurstEnd ==
    /\ pc = "burst" /\ strategy = "random_bursts"
    /\ (k = 0 \/ Len(timestamps) >= kwargs.num_qtasks)
    /\ pc' = "loop"
    /\ k' = 0
    /\ UNCHANGED <<strategy, kwargs, sample_df, base_time, current_time,
                   timestamps, i, attached, result, error, persisted>>

\* a pass of the while loop that takes the else branch
RandomBurstsNormal ==
    /\ pc = "loop" /\ strategy = "random_bursts"
    /\ Len(timestamps) < kwargs.num_qtasks
    /\ \E r \in RandomDraws : ~IsBurst(r, kwargs.burst_chance)
    /\ timestamps' = Append(timestamps, current_time)
    /\ current_time' = current_time + kwargs.normal_interval
    /\ UNCHANGED <<pc, strategy, kwargs, sample_df, base_time, i, k,
                   attached, result, error, persisted>>

RandomBurstsFinish ==
    /\ pc = "loop" /\ strategy = "random_bursts"
    /\ Len(timestamps) >= kwargs.num_qtasks
    /\ Finish(Truncate(timestamps, kwargs.num_qtasks), TRUE,
              "random_burst_dataset.csv")

---------------------------------------------------------------------------
(* map_invocation_times                                                    *)

\* the row labels a user's table may carry
Labels == 0 .. MaxRows

\* the timestamps a user's table may carry
LoggedTimes == {10, 20}

\* the tables given as invocation_times: rows with distinct labels, with or
\* without a 'timestamp' column
InvocationTables ==
    UNION {{[has_timestamp |-> h, index |-> idx, timestamp |-> ts] :
              h \in BOOLEAN,
              idx \in {f \in [1 .. n -> Labels] :
                          \A x, y \in 1 .. n : x # y => f[x] # f[y]},
              ts \in [1 .. n -> LoggedTimes]} : n \in 0 .. MaxRows}

\* the value of a Series at a label, NaN where the label is absent
AtLabel(series_index, series_values, label) ==
    IF Contains(series_index, label)
    THEN series_values[CHOOSE x \in DOMAIN series_index :
                          series_index[x] = label]
    ELSE NaN

\* df['timestamp'] = <Series>: the Series is aligned on the frame's index
SetSeries(df, series_index, series_values) ==
    [df EXCEPT !.timestamp = [x \in 1 .. Len(df.rows) |->
                                 AtLabel(series_index, series_values,
                                         df.index[x])],
               !.columns = IF Contains(df.columns, "timestamp")
                           THEN df.columns
                           ELSE Append(df.columns, "timestamp")]

MapInvocationTimes ==
    /\ pc = "idle"
    /\ \E invocation_times \in InvocationTables :
          LET num_qtasks == Len(invocation_times.index) IN
          /\ kwargs' = [num_qtasks |-> num_qtasks,
                        invocation_times |-> invocation_times]
          /\ \E drawn \in Sample(num_qtasks) :
                IF ~invocation_times.has_timestamp
                THEN /\ sample_df' = ResetIndex(drawn)
                     /\ Raise("map_invocation_times", "ValueError")
                     /\ UNCHANGED persisted
                ELSE /\ sample_df' = InsertSubset(
                            SetSeries(ResetIndex(drawn),
                                      invocation_times.index,
                                      invocation_times.timestamp))
                     /\ persisted' = "map_invocation_times_dataset.csv"
                     /\ result' = <<sample_df'>>
                     /\ pc' = "done"
                     /\ strategy' = "map_invocation_times"
                     /\ UNCHANGED error
    /\ UNCHANGED <<base_time, current_time, timestamps, i, k, attached>>

---------------------------------------------------------------------------
(* generate_workload                                                       *)

Scenarios == 0 .. 7

GenerateWorkload ==
    /\ pc = "idle"
    /\ \E scenario \in Scenarios :
        CASE scenario = 1 -> BurstyCall
          [] scenario = 2 -> RegularSpikesCall
          [] scenario = 3 -> RampUpCall
          [] scenario = 4 -> RampDownCall
          [] scenario = 5 -> RandomBurstsCall
          [] scenario = 6 -> MapInvocationTimes
          [] OTHER -> /\ pc = "idle"
                      /\ Raise("generate_workload", "ValueError")
                      /\ UNCHANGED <<kwargs, sample_df, base_time,
                                     current_time, timestamps, i, k,
                                     attached, persisted>>

---------------------------------------------------------------------------
\* the caller has the outcome of the call; the next call starts afresh
Return ==
    /\ pc \in {"done", "failed"}
    /\ pc' = "idle"
    /\ strategy' = "none"
    /\ kwargs' = [num_qtasks |-> 0]
    /\ sample_df' = EmptyFrame
    /\ base_time' = 0
    /\ current_time' = 0
    /\ timestamps' = <<>>
    /\ i' = 0
    /\ k' = 0
    /\ attached' = <<>>
    /\ result' = <<>>
    /\ error' = "none"
    /\ persisted' = "none"

Next ==
    \/ SingleSpikeCall
    \/ GenerateWorkload
    \/ SingleSpikeBurst
    \/ SingleSpikeNormal
    \/ SingleSpikeFinish
    \/ BurstyBurst
    \/ BurstyIdle
    \/ BurstyFinish
    \/ RegularSpikesModuloFails
    \/ RegularSpikesNormal
    \/ RegularSpikesSpikeBegin
    \/ RegularSpikesSpikeArrival
    \/ RegularSpikesSpikeEnd
    \/ RegularSpikesFinish
    \/ RampUpArrival
    \/ RampUpFinish
    \/ RampDownArrival
    \/ RampDownFinish
    \/ RandomBurstsBurstBegin
    \/ RandomBurstsBurstArrival
    \/ RandomBurstsBurstEnd
    \/ RandomBurstsNormal
    \/ RandomBurstsFinish
    \/ Return

Spec == Init /\ [][Next]_vars

\* the steps of a call that is under way, and its return to the caller
Step ==
    \/ SingleSpikeBurst
    \/ SingleSpikeNormal
    \/ SingleSpikeFinish
    \/ BurstyBurst
    \/ BurstyIdle
    \/ BurstyFinish
    \/ RegularSpikesModuloFails
    \/ RegularSpikesNormal
    \/ RegularSpikesSpikeBegin
    \/ RegularSpikesSpikeArrival
    \/ RegularSpikesSpikeEnd
    \/ RegularSpikesFinish
    \/ RampUpArrival
    \/ RampUpFinish
    \/ RampDownArrival
    \/ RampDownFinish
    \/ RandomBurstsBurstBegin
    \/ RandomBurstsBurstArrival
    \/ RandomBurstsBurstEnd
    \/ RandomBurstsNormal
    \/ RandomBurstsFinish
    \/ Return

\* a call is synchronous: once entered, the interpreter keeps executing it
FairSpec == Spec /\ WF_vars(Step)

---------------------------------------------------------------------------
(* Vocabulary of the properties.                                           *)

Synthesised == {"single_spike", "bursty", "regular_spikes", "ramp_up",
                "ramp_down", "random_bursts"}

Ramps == {"ramp_up", "ramp_down"}

Running == pc \in {"loop", "spike", "burst"}

Finished == pc \in {"done", "failed"}

num_qtasks == kwargs.num_qtasks

\* the strategy's smallest valid count
MinCount == IF strategy \in Ramps THEN 2 ELSE 1

\* the strategy's burst_count / spike_task_count / max_burst_size is positive
PositiveTaskCount ==
    CASE strategy \in {"single_spike", "bursty"} -> kwargs.burst_tasks >= 1
      [] strategy = "regular_spikes" -> kwargs.spike_tasks >= 1
      [] strategy = "random_bursts" -> kwargs.max_tasks_in_burst >= 1
      [] OTHER -> TRUE

\* the 'timestamp' column of the returned dataset
Returned == result[1].timestamp

NonDecreasing(ts) == \A x \in 1 .. Len(ts) - 1 : ts[x] <= ts[x + 1]

\* the gap that follows the x-th timestamp (x counted from 0)
Gap(ts, x) == ts[x + 2] - ts[x + 1]

---------------------------------------------------------------------------
(* The claims.                                                             *)

\* C1: for every strategy, every outcome of the draws, every count at or
\* above the strategy's minimum and every positive burst_tasks /
\* spike_tasks / max_tasks_in_burst (larger than the count included), the
\* sequence of timestamps the call attaches to the sample has exactly
\* num_qtasks elements.
C1_AttachedLengthIsCount ==
    (/\ strategy \in Synthesised
     /\ attached # <<>>
     /\ num_qtasks >= MinCount
     /\ PositiveTaskCount)
        => Len(attached[1]) = num_qtasks

\* C2: every call that returns a dataset returns records that carry the
\* field 'subset' first, with value 1 in every record, together with the
\* field 'timestamp' and the pool's fields.
C2_SubsetLeads ==
    (pc = "done" /\ Len(result[1].rows) > 0) =>
        LET df == result[1] IN
        /\ df.columns[1] = "subset"
        /\ Len(df.subset) = Len(df.rows)
        /\ \A x \in DOMAIN df.subset : df.subset[x] = 1
        /\ Contains(df.columns, "timestamp")
        /\ Range(PoolColumns) \subseteq Range(df.columns)

\* C3: a ramp called with a count below 2 (1, 0 or negative) ends in an
\* error and returns no dataset.
C3_RampBelowTwoFails ==
    (strategy \in Ramps /\ num_qtasks < 2 /\ Finished)
        => (pc = "failed" /\ error # "none" /\ result = <<>>)

\* C4: a call that fails raises before the persistence step: it returns no
\* dataset and writes no file.
C4_FailureLeavesNothing ==
    pc = "failed" => (result = <<>> /\ persisted = "none")

\* C4's case: the attachment itself raised (a length mismatch), after the
\* loops had run.
C4_Witness ==
    /\ pc = "failed"
    /\ strategy = "single_spike"
    /\ attached # <<>>
    /\ Len(attached[1]) # Len(sample_df.rows)

\* C5: pass-through mapping of a table of n rows with timestamps t_0 ..
\* t_(n-1) in row order, whatever its row labels, returns n records whose
\* i-th timestamp is t_i; a table without the field fails.
C5_PassThroughVerbatim ==
    (strategy = "map_invocation_times" /\ Finished) =>
        IF kwargs.invocation_times.has_timestamp
        THEN /\ pc = "done"
             /\ Len(Returned) = num_qtasks
             /\ \A x \in 1 .. num_qtasks :
                   Returned[x] = kwargs.invocation_times.timestamp[x]
        ELSE pc = "failed"

\* C6: for every strategy, every outcome of the draws and all non-negative
\* durations and intervals, the returned timestamps are non-decreasing in
\* index order.
C6_NonDecreasing ==
    (pc = "done" /\ strategy \in Synthesised) => NonDecreasing(Returned)

C8_NoChanceIsRegular ==
    (strategy = "random_bursts" /\ kwargs.burst_chance = 0
     /\ num_qtasks >= 1) =>
        /\ pc # "burst"
        /\ pc # "failed"
        /\ pc = "done" =>
              /\ Len(Returned) = num_qtasks
              /\ \A x \in 1 .. num_qtasks :
                    Returned[x] = base_time
                                  + (x - 1) * kwargs.normal_interval

\* C8's case: a returned sequence of two or more timestamps, a chance of 0
\* and intervals that tell a burst from a normal arrival.
C8_Witness ==
    /\ pc = "done"
    /\ strategy = "random_bursts"
    /\ kwargs.burst_chance = 0
    /\ num_qtasks >= 2
    /\ kwargs.normal_interval > 0
    /\ kwargs.max_tasks_in_burst >= 1
    /\ Returned[2] = Returned[1] + kwargs.normal_interval

\* C9: every call that has entered its generation loop ends (it returns
\* or raises), whatever the draws; random bursts with a count of 0 or more
\* and max_tasks_in_burst >= 1 returns for every burst_chance, with exactly
\* num_qtasks timestamps collected and returned.
C9_LoopsTerminate ==
    /\ Running ~> Finished
    /\ [](strategy = "random_bursts" /\ kwargs.max_tasks_in_burst >= 1
          /\ num_qtasks >= 0
            => /\ pc # "failed"
               /\ pc = "done" => /\ Len(timestamps) = num_qtasks
                                 /\ Len(Returned) = num_qtasks)

\* C9's case: random bursts with burst_chance = 1, where every pass of the
\* while loop is a burst, has returned two or more timestamps.
C9_Witness ==
    /\ pc = "done"
    /\ strategy = "random_bursts"
    /\ kwargs.burst_chance = 2
    /\ kwargs.max_tasks_in_burst >= 1
    /\ num_qtasks >= 2
    /\ Len(Returned) = num_qtasks

\* C10 as claimed: at every point of the loop of regular spikes, for every
\* count and spike_tasks of 1 or more, at most num_qtasks timestamps have
\* been collected.
C10_NeverMoreThanCount ==
    (strategy = "regular_spikes" /\ num_qtasks >= 1
     /\ kwargs.spike_tasks >= 1)
        => Len(timestamps) <= num_qtasks

\* C10 as amended: a spike appends only while fewer than num_qtasks
\* timestamps are collected, so an arrival of a spike never takes the count
\* past num_qtasks; a normal arrival is not capped and may; the sequence
\* returned is cut to exactly num_qtasks.
C10_SpikeCappedOutputCut ==
    /\ [][(strategy = "regular_spikes" /\ pc = "spike"
           /\ timestamps' # timestamps)
             => Len(timestamps') <= num_qtasks]_vars
    /\ [](strategy = "regular_spikes" /\ pc = "done"
            => /\ Len(timestamps) >= num_qtasks
               /\ Returned = SubSeq(timestamps, 1, num_qtasks))

\* C10's case: a normal arrival after a spike took the count past
\* num_qtasks, and the call returned num_qtasks timestamps.
C10_Witness ==
    /\ pc = "done"
    /\ strategy = "regular_spikes"
    /\ kwargs.spike_tasks >= 1
    /\ Len(timestamps) > num_qtasks
    /\ Len(Returned) = num_qtasks

====
